---------------------------- MODULE Spec2Model ----------------------------
(***************************************************************************)
(* Model of simplesmdspider.py: the credential sweep of main, the session  *)
(* handling of spider_smb_shares, the recursive walk of spider_files and   *)
(* the path arithmetic that maps remote names to local paths.              *)
(*                                                                         *)
(* A Python string is a sequence of symbols.  "/", "\\" (one backslash),   *)
(* "." and "NUL" are the characters the code treats specially; every other *)
(* symbol ("a", "output", ...) stands for a run of ordinary characters.    *)
(***************************************************************************)
EXTENDS Naturals, Sequences, FiniteSets

\* ------------------------------------------------------------------ bounds
\* Number of faults the environment may inject in one run of the sweep.
MaxFailures == 2
\* The interpreter's recursion limit (sys.getrecursionlimit()), scaled down:
\* the deepest nesting of spider_files frames the interpreter allows.
RecursionLimit == 3

\* ----------------------------------------------------------------- strings
SEP == "/"
BSL == "\\"
DOT == "."
NUL == "NUL"

EMPTY == << >>
CURDIR == <<DOT>>
PARDIR == <<DOT, DOT>>

Last(s) == s[Len(s)]
Front(s) == SubSeq(s, 1, Len(s) - 1)

\* str.replace(old, new) for one-character old and new
Replace(s, old, new) == [i \in 1..Len(s) |-> IF s[i] = old THEN new ELSE s[i]]

\* str.lstrip(c) for a one-character c
RECURSIVE LStrip(_, _)
LStrip(s, c) == IF s # EMPTY /\ Head(s) = c THEN LStrip(Tail(s), c) ELSE s

\* str.rstrip(c) for a one-character c
RECURSIVE RStrip(_, _)
RStrip(s, c) == IF s # EMPTY /\ Last(s) = c THEN RStrip(Front(s), c) ELSE s

\* posixpath.join(a, b)
Join(a, b) ==
    IF b # EMPTY /\ Head(b) = SEP THEN b
    ELSE IF a = EMPTY \/ Last(a) = SEP THEN a \o b
    ELSE a \o <<SEP>> \o b

\* index of the last SEP of p, 0 when there is none (str.rfind + 1)
RECURSIVE RFindSep(_, _)
RFindSep(p, i) == IF i = 0 THEN 0 ELSE IF p[i] = SEP THEN i ELSE RFindSep(p, i - 1)

\* posixpath.dirname(p)
Dirname(p) ==
    LET head == SubSeq(p, 1, RFindSep(p, Len(p)))
    IN  IF head # EMPTY /\ RStrip(head, SEP) # EMPTY THEN RStrip(head, SEP) ELSE head

\* the components of p between the separators in seps, empty ones included
RECURSIVE SplitOn(_, _, _)
SplitOn(p, seps, cur) ==
    IF p = EMPTY THEN <<cur>>
    ELSE IF Head(p) \in seps THEN <<cur>> \o SplitOn(Tail(p), seps, EMPTY)
    ELSE SplitOn(Tail(p), seps, Append(cur, Head(p)))

Components(p, seps) == SelectSeq(SplitOn(p, seps, EMPTY), LAMBDA c : c # EMPTY)

\* ------------------------------------------------------ local file system
\* A location is the sequence of directory names from the file system root.
\* The process runs in the directory Cwd; relative paths start there.
Cwd == <<<<"cwd">>>>

\* the location that walking the components cs from location loc leads to
RECURSIVE Walk(_, _)
Walk(loc, cs) ==
    IF cs = EMPTY THEN loc
    ELSE IF Head(cs) = CURDIR THEN Walk(loc, Tail(cs))
    ELSE IF Head(cs) = PARDIR
         THEN Walk(IF loc = EMPTY THEN loc ELSE Front(loc), Tail(cs))
    ELSE Walk(Append(loc, Head(cs)), Tail(cs))

IsAbs(p) == p # EMPTY /\ Head(p) = SEP

\* the location a path names (the kernel's path resolution)
Resolve(p) == Walk(IF IsAbs(p) THEN EMPTY ELSE Cwd, Components(p, {SEP}))

\* the locations named by the successive prefixes of p: what os.makedirs
\* walks through, outermost first
PrefixLocs(p) ==
    LET cs == Components(p, {SEP})
        start == IF IsAbs(p) THEN EMPTY ELSE Cwd
    IN  [i \in 1..Len(cs) |-> Walk(start, SubSeq(cs, 1, i))]

IsPrefix(a, b) == Len(a) <= Len(b) /\ SubSeq(b, 1, Len(a)) = a

\* the directories that exist before the program creates any
BaseDirs == {EMPTY, Cwd}


\* the smallest element of a non-empty set of numbers
Min(S) == CHOOSE x \in S : \A y \in S : x <= y

\* os.makedirs(p, exist_ok=True) on the tree (dirs, files): every prefix of p
\* is created in turn; it raises at the first prefix that is a regular file,
\* and on the empty path.  fault: the call fails for an outside reason
\* (permissions, disk) before it creates anything.
Makedirs(dirs, files, p, fault) ==
    LET locs == PrefixLocs(p)
        bad == {i \in 1..Len(locs) : locs[i] \in DOMAIN files}
        stop == IF bad = {} THEN Len(locs) + 1 ELSE Min(bad)
    IN  IF fault \/ p = EMPTY THEN [ok |-> FALSE, dirs |-> dirs]
        ELSE [ok |-> bad = {},
              dirs |-> dirs \cup {locs[i] : i \in 1..(stop - 1)}]

\* a file table written in append mode: data is added to what loc holds
Store_Append(files, loc, data) ==
    [l \in DOMAIN files \cup {loc} |->
        IF l # loc THEN files[l]
        ELSE IF loc \in DOMAIN files THEN files[loc] \o data ELSE data]

\* the file table with location loc holding data
Store(files, loc, data) ==
    [l \in DOMAIN files \cup {loc} |-> IF l = loc THEN data ELSE files[l]]

\* open(p, 'wb'): creates or truncates the file; raises when p names a
\* directory or its parent directory is missing
CanOpenWB(dirs, files, p) ==
    LET loc == Resolve(p)
    IN  /\ loc # EMPTY
        /\ Last(p) # SEP
        /\ loc \notin dirs
        /\ Front(loc) \in dirs

\* --------------------------------------------------------- remote server
\* A server state: the hosts that answer, the credentials they accept, the
\* shares they export and a table of nodes.  A node is a directory (its
\* listing: entries with a name, a directory flag and the node they lead to)
\* or a file (its bytes).  Node 0 is "not found".
STAR == "*"

Entry(name, isdir, node) == [name |-> name, is_directory |-> isdir, node |-> node]
DirNode(files) == [is_dir |-> TRUE, files |-> files, data |-> EMPTY]
FileNode(data) == [is_dir |-> FALSE, files |-> EMPTY, data |-> data]

\* the node the components cs lead to from node n; the server resolves each
\* component by name and knows no "." or ".." component
RECURSIVE Lookup(_, _, _)
Lookup(w, n, cs) ==
    IF n = 0 \/ cs = EMPTY THEN n
    ELSE LET es == IF w.nodes[n].is_dir THEN w.nodes[n].files ELSE EMPTY
             hit == {i \in 1..Len(es) :
                        es[i].name = Head(cs) /\ Head(cs) \notin {CURDIR, PARDIR}}
         IN  IF hit = {} THEN 0 ELSE Lookup(w, es[Min(hit)].node, Tail(cs))

\* the root node of the share called name, 0 when the server has none
ShareRoot(w, name) ==
    LET hit == {i \in 1..Len(w.shares) : w.shares[i].name = name}
    IN  IF hit = {} THEN 0 ELSE w.shares[Min(hit)].root

\* SMBConnection.listPath(share, pattern): the server splits the pattern on
\* both separators; the last component is the wildcard
ListPath(w, share, pattern) ==
    LET cs == Components(pattern, {SEP, BSL})
        n == IF cs # EMPTY /\ Last(cs) = <<STAR>>
             THEN Lookup(w, ShareRoot(w, share), Front(cs)) ELSE 0
    IN  IF n # 0 /\ w.nodes[n].is_dir
        THEN [ok |-> TRUE, files |-> w.nodes[n].files, node |-> n]
        ELSE [ok |-> FALSE, files |-> EMPTY, node |-> 0]

\* SMBConnection.getFile(share, path, callback): the bytes of the file
GetFile(w, share, path) ==
    LET n == Lookup(w, ShareRoot(w, share), Components(path, {SEP, BSL}))
    IN  IF n # 0 /\ ~w.nodes[n].is_dir
        THEN [ok |-> TRUE, data |-> w.nodes[n].data]
        ELSE [ok |-> FALSE, data |-> EMPTY]

\* SMBConnection.listShares(): SHARE_INFO_1 records, the name NUL-terminated
ListShares(w) == [i \in 1..Len(w.shares) |-> [shi1_netname |-> Append(w.shares[i].name, NUL)]]

\* ------------------------------------------------------- console output
\* One printed line: what it reports and the two values it names.
Line(kind, a, b) == [kind |-> kind, a |-> a, b |-> b]

\* --------------------------------------------- the program's functions
\* list_shares: the share names without their NUL, or [] and a report
list_shares(resp) ==
    IF resp.ok
    THEN [share_names |-> [i \in 1..Len(resp.shares) |-> Front(resp.shares[i].shi1_netname)],
          out |-> EMPTY]
    ELSE [share_names |-> EMPTY,
          out |-> <<Line("ErrorListingShares", EMPTY, EMPTY)>>]

\* a list_files without its try block: the failure of listPath leaves it
list_files_uncaught(resp, share_name) ==
    [files |-> resp.files, out |-> EMPTY, raised |-> ~resp.ok]

\* list_files: the listing, or [] and a report; it never raises
list_files(resp, share_name) ==
    IF resp.ok
    THEN [files |-> resp.files, out |-> EMPTY, raised |-> FALSE]
    ELSE [files |-> EMPTY,
          out |-> <<Line("ErrorListingFiles", share_name, EMPTY)>>,
          raised |-> FALSE]

\* spider_files, line 91
full_remote_path(remote_path, filename) == Replace(Join(remote_path, filename), BSL, SEP)

\* a local path that keeps only the last component of the remote path
local_path_basename(local_base_path, frp) ==
    Join(local_base_path, Last(Components(frp, {SEP, BSL})))

\* spider_files, line 92
local_path(local_base_path, frp) == Join(local_base_path, LStrip(frp, BSL))

\* spider_smb_shares, line 65
host_directory(host) == Join(<<"output">>, host)

\* spider_smb_shares, line 71
share_directory(host, share) == Join(host_directory(host), share)

\* spider_files, line 88: the entries that are not walked
is_skipped(filename) == filename \in {CURDIR, PARDIR}

\* a download_file whose handler reports the failure and raises it again
download_file_reraises(dirs, files, get, fault, k, remote_path, lpath) ==
    LET mk == Makedirs(dirs, files, Dirname(lpath), fault = "makedirs")
        opened == mk.ok /\ fault # "open" /\ CanOpenWB(mk.dirs, files, lpath)
        complete == opened /\ get.ok /\ fault # "read"
        written == IF complete THEN get.data
                   ELSE IF get.ok THEN SubSeq(get.data, 1, k) ELSE EMPTY
    IN  [dirs |-> mk.dirs,
         files |-> IF opened THEN Store(files, Resolve(lpath), written) ELSE files,
         opened |-> opened,
         complete |-> complete,
         out |-> IF complete THEN <<Line("Downloaded", remote_path, lpath)>>
                 ELSE <<Line("ErrorDownloading", remote_path, EMPTY)>>,
         raised |-> ~complete]

\* a download_file that takes a read that broke off for a complete one
download_file_short_read(dirs, files, get, fault, k, remote_path, lpath) ==
    LET mk == Makedirs(dirs, files, Dirname(lpath), fault = "makedirs")
        opened == mk.ok /\ fault # "open" /\ CanOpenWB(mk.dirs, files, lpath)
        complete == opened /\ get.ok
        written == IF fault # "read" THEN get.data ELSE SubSeq(get.data, 1, k)
    IN  [dirs |-> mk.dirs,
         files |-> IF opened THEN Store(files, Resolve(lpath), written) ELSE files,
         opened |-> opened,
         complete |-> complete,
         out |-> IF complete THEN <<Line("Downloaded", remote_path, lpath)>>
                 ELSE <<Line("ErrorDownloading", remote_path, EMPTY)>>,
         raised |-> FALSE]

\* a download_file that prints its success line after the try statement,
\* whatever happened in it
download_file_always_reports(dirs, files, get, fault, k, remote_path, lpath) ==
    LET mk == Makedirs(dirs, files, Dirname(lpath), fault = "makedirs")
        opened == mk.ok /\ fault # "open" /\ CanOpenWB(mk.dirs, files, lpath)
        complete == opened /\ get.ok /\ fault # "read"
        written == IF complete THEN get.data
                   ELSE IF get.ok THEN SubSeq(get.data, 1, k) ELSE EMPTY
    IN  [dirs |-> mk.dirs,
         files |-> IF opened THEN Store(files, Resolve(lpath), written) ELSE files,
         opened |-> opened,
         complete |-> complete,
         out |-> IF complete THEN <<Line("Downloaded", remote_path, lpath)>>
                 ELSE <<Line("ErrorDownloading", remote_path, EMPTY),
                        Line("Downloaded", remote_path, lpath)>>,
         raised |-> FALSE]

\* download_file on the local tree (dirs, files).  get is the server's answer
\* to getFile; fault names the step an outside failure hits ("none",
\* "makedirs", "open", "read") and k the bytes a failing read delivered.
\* Every exception is caught and reported; the function never raises.
download_file(dirs, files, get, fault, k, remote_path, lpath) ==
    LET mk == Makedirs(dirs, files, Dirname(lpath), fault = "makedirs")
        opened == mk.ok /\ fault # "open" /\ CanOpenWB(mk.dirs, files, lpath)
        complete == opened /\ get.ok /\ fault # "read"
        written == IF complete THEN get.data
                   ELSE IF get.ok THEN SubSeq(get.data, 1, k) ELSE EMPTY
    IN  [dirs |-> mk.dirs,
         files |-> IF opened THEN Store(files, Resolve(lpath), written) ELSE files,
         opened |-> opened,
         complete |-> complete,
         out |-> IF complete THEN <<Line("Downloaded", remote_path, lpath)>>
                 ELSE <<Line("ErrorDownloading", remote_path, EMPTY)>>,
         raised |-> FALSE]

\* a handler that swallows the exception and lets the try block go on to
\* the share listing
spider_smb_shares_except_resumes(host, username) ==
    [pc |-> "list_shares", out |-> <<Line("ErrorConnecting", host, username)>>]

\* spider_smb_shares, lines 78-79: every Exception is reported and the
\* function returns to main's loop
spider_smb_shares_except(host, username) ==
    [pc |-> "main", out |-> <<Line("ErrorConnecting", host, username)>>]

\* a product whose leftmost list advances fastest
Product_HostFastest(hs, us, ps) ==
    [n \in 1..(Len(hs) * Len(us) * Len(ps)) |->
        [host |-> hs[((n - 1) % Len(hs)) + 1],
         username |-> us[(((n - 1) \div Len(hs)) % Len(us)) + 1],
         password |-> ps[((n - 1) \div (Len(hs) * Len(us))) + 1]]]

\* itertools.product(hosts, usernames, passwords): the rightmost list
\* advances fastest
Product(hs, us, ps) ==
    [n \in 1..(Len(hs) * Len(us) * Len(ps)) |->
        [host |-> hs[((n - 1) \div (Len(us) * Len(ps))) + 1],
         username |-> us[(((n - 1) \div Len(ps)) % Len(us)) + 1],
         password |-> ps[((n - 1) % Len(ps)) + 1]]]

\* ------------------------------------------------------------ scenarios
H == <<"h">>
G == <<"g">>
U == <<"u">>
P == <<"p">>
Q == <<"q">>

Server(up, valid, shares, nodes) ==
    [up |-> up, valid |-> valid, shares |-> shares, nodes |-> nodes]
Export(name, root) == [name |-> name, root |-> root]

\* no host answers
WDown == Server({}, {}, EMPTY, EMPTY)

\* the hosts answer and accept no credential
WDeny == Server({H, G}, {}, EMPTY, EMPTY)

\* the hosts accept (u, p) and export nothing
WEmpty == Server({H, G}, {<<U, P>>}, EMPTY, EMPTY)

\* two shares: s holds directory d (file a) and file b, t holds file a;
\* the listings of s carry the "." and ".." entries real servers send
WTree ==
    Server({H, G}, {<<U, P>>},
           <<Export(<<"s">>, 1), Export(<<"t">>, 4)>>,
           <<DirNode(<<Entry(CURDIR, TRUE, 1), Entry(PARDIR, TRUE, 1),
                       Entry(<<"d">>, TRUE, 2), Entry(<<"b">>, FALSE, 3)>>),
             DirNode(<<Entry(CURDIR, TRUE, 2), Entry(PARDIR, TRUE, 1),
                       Entry(<<"a">>, FALSE, 5)>>),
             FileNode(<<1, 2>>),
             DirNode(<<Entry(<<"a">>, FALSE, 3)>>),
             FileNode(<<3>>)>>)

\* directory x lists itself as its own child x
WLoop ==
    Server({H, G}, {<<U, P>>},
           <<Export(<<"s">>, 1)>>,
           <<DirNode(<<Entry(<<"x">>, TRUE, 2), Entry(<<"b">>, FALSE, 3)>>),
             DirNode(<<Entry(<<"x">>, TRUE, 2), Entry(<<"a">>, FALSE, 3)>>),
             FileNode(<<1>>)>>)

\* entry names a hostile or unusual server can send: "/a", "../a", "d\a";
\* both shares hold an entry "/a"
WNames ==
    Server({H, G}, {<<U, P>>},
           <<Export(<<"s">>, 1), Export(<<"t">>, 5)>>,
           <<DirNode(<<Entry(<<SEP, "a">>, FALSE, 2),
                       Entry(<<DOT, DOT, SEP, "a">>, FALSE, 2),
                       Entry(<<"d">>, TRUE, 3),
                       Entry(<<"d", BSL, "a">>, FALSE, 2),
                       Entry(<<"a">>, FALSE, 2)>>),
             FileNode(<<1>>),
             DirNode(<<Entry(<<"a">>, FALSE, 4)>>),
             FileNode(<<2>>),
             DirNode(<<Entry(<<SEP, "a">>, FALSE, 4)>>)>>)

\* share names a hostile server can send: "..", "/e"
WShares ==
    Server({H, G}, {<<U, P>>},
           <<Export(PARDIR, 1), Export(<<SEP, "e">>, 1), Export(<<"s">>, 1)>>,
           <<DirNode(<<Entry(<<"a">>, FALSE, 2)>>),
             FileNode(<<1>>)>>)

Lists(hs, us, ps) == [hosts |-> hs, usernames |-> us, passwords |-> ps]
Scenario(w, hs, us, ps) == [world |-> w, input |-> Lists(hs, us, ps)]

\* the longest input list of the sweeps against hosts that do not answer
MaxLen == 2

SeqsUpTo(S, n) == UNION {[1..k -> S] : k \in 0..n}

Scenarios ==
    {Scenario(WDown, hs, us, ps) :
        hs \in SeqsUpTo({H, G}, MaxLen), us \in SeqsUpTo({U}, MaxLen),
        ps \in SeqsUpTo({P, Q}, MaxLen)}
    \cup {Scenario(WDeny, <<H>>, <<U>>, <<P, Q>>),
          Scenario(WEmpty, <<H>>, <<U>>, <<P, P>>),
          Scenario(WTree, <<H>>, <<U>>, <<Q, P>>),
          Scenario(WTree, <<H>>, <<U>>, <<P, P>>),
          Scenario(WTree, <<H, G>>, <<U>>, <<Q, P>>),
          Scenario(WLoop, <<H>>, <<U>>, <<P>>),
          Scenario(WNames, <<H>>, <<U>>, <<P>>),
          Scenario(WShares, <<H>>, <<U>>, <<P>>)}

\* ---------------------------------------------------------------- state
VARIABLES
    input,      \* the three lists main read
    world,      \* the remote state
    pc,         \* where the program is
    it,         \* main's iterator: the index of the next triple
    cur,        \* host, username, password of the running spider_smb_shares
    sessions,   \* one record per connection that was established
    shares,     \* spider_smb_shares' shares
    si,         \* the index of the share being spidered
    stack,      \* the frames of spider_files, innermost last
    dirs,       \* local directories
    files,      \* local files: location -> bytes
    out,        \* the lines printed
    attempts,   \* the triples main handed to spider_smb_shares
    ops,      \* the remote ops of the running triple
    mapped,     \* the local path computed for each remote entry met
    failures,   \* the faults injected so far
    replay,     \* the run of the program, the faults of the first run, its result
    reported    \* the downloads reported so far

vars == <<input, world, pc, it, cur, sessions, shares, si, stack, dirs, files,
          out, attempts, ops, mapped, failures, replay, reported>>

NoTriple == [host |-> EMPTY, username |-> EMPTY, password |-> EMPTY]
NoFiles == [l \in {} |-> EMPTY]

Triples == Product(input.hosts, input.usernames, input.passwords)
Top == stack[Len(stack)]
Share == shares[si]
LocalBase == share_directory(cur.host, Share)
TopEntry == Top.files[Top.i]
TopRemote == full_remote_path(Top.remote_path, TopEntry.name)
TopLocal == local_path(LocalBase, TopRemote)

Call(op, share, path, ok) == [op |-> op, share |-> share, path |-> path, ok |-> ok]
Frame(remote_path) ==
    [remote_path |-> remote_path, listed |-> FALSE, files |-> EMPTY, i |-> 1, node |-> 0]
Session(n) == [triple |-> n, logged_in |-> FALSE, logoffs |-> 0]

Init ==
    /\ \E sc \in Scenarios : input = sc.input /\ world = sc.world
    /\ pc = "main"
    /\ it = 1
    /\ cur = NoTriple
    /\ sessions = EMPTY
    /\ shares = EMPTY
    /\ si = 1
    /\ stack = EMPTY
    /\ dirs = BaseDirs
    /\ files = NoFiles
    /\ out = EMPTY
    /\ attempts = EMPTY
    /\ ops = EMPTY
    /\ mapped = {}
    /\ failures = 0
    /\ replay = [run |-> 1, sched |-> {}, dirs |-> BaseDirs, files |-> NoFiles]
    /\ reported = {}

\* the place of the next operation in the run: the triple and the number of
\* operations the triple has made
Pos == <<it, Len(ops)>>

\* An operation fails for a reason of the state (natural) or because the
\* environment makes it fail in the way named by what.  In the first run the
\* fault budget allows that MaxFailures times and the fault is noted; a
\* second run of the program meets the faults of the first, at the same
\* operations.
Injects(natural, what) ==
    IF natural THEN failures' = failures /\ replay' = replay
    ELSE IF replay.run = 1
    THEN /\ failures < MaxFailures
         /\ failures' = failures + 1
         /\ replay' = [replay EXCEPT !.sched = @ \cup {[at |-> Pos, what |-> what]}]
    ELSE /\ [at |-> Pos, what |-> what] \in replay.sched
         /\ failures' = failures + 1
         /\ replay' = replay

Fails(natural) == Injects(natural, <<"fail", 0>>)

\* One of several outcomes the interpreter can produce at this point is
\* taken; a second run takes the one the first run took.
Chooses(what) ==
    /\ failures' = failures
    /\ IF replay.run = 1
       THEN replay' = [replay EXCEPT !.sched = @ \cup {[at |-> Pos, what |-> what]}]
       ELSE [at |-> Pos, what |-> what] \in replay.sched /\ replay' = replay

\* the environment lets the next operation through
Unfaulted == replay.run = 1 \/ \A f \in replay.sched : f.at # Pos

\* An exception leaves spider_files and the try block of spider_smb_shares.
Raise(lines) ==
    LET h == spider_smb_shares_except(cur.host, cur.username)
    IN  /\ pc' = h.pc
        /\ out' = out \o lines \o h.out
        /\ stack' = EMPTY

SetTop(f) == [stack EXCEPT ![Len(stack)] = f]
Logged(op, share, path, ok) == Append(ops, Call(op, share, path, ok))
Mapping == [host |-> cur.host, share |-> Share, remote |-> TopRemote, lpath |-> TopLocal]

\* -------------------------------------------------------------- main
\* lines 124-126: the next triple of the product goes to spider_smb_shares
MainNext ==
    /\ pc = "main"
    /\ it <= Len(Triples)
    /\ cur' = Triples[it]
    /\ it' = it + 1
    /\ attempts' = Append(attempts, Triples[it])
    /\ out' = Append(out, Line("Trying", Triples[it].host, Triples[it].username))
    /\ ops' = EMPTY
    /\ shares' = EMPTY
    /\ si' = 1
    /\ pc' = "connect"
    /\ UNCHANGED <<input, world, sessions, stack, dirs, files, mapped, failures,
                   replay, reported>>

\* line 124: the product is exhausted
MainDone ==
    /\ pc = "main"
    /\ it > Len(Triples)
    /\ pc' = "done"
    /\ UNCHANGED <<input, world, it, cur, sessions, shares, si, stack, dirs, files,
                   out, attempts, ops, mapped, failures, replay, reported>>

\* ------------------------------------------------- spider_smb_shares
\* line 54: the connection is established
ConnectOk ==
    /\ pc = "connect"
    /\ cur.host \in world.up
    /\ sessions' = Append(sessions, Session(it - 1))
    /\ ops' = Logged("connect", EMPTY, EMPTY, TRUE)
    /\ pc' = "login"
    /\ Unfaulted
    /\ UNCHANGED <<input, world, it, cur, shares, si, stack, dirs, files, out,
                   attempts, mapped, failures, replay, reported>>

\* line 54 raises
ConnectFail ==
    /\ pc = "connect"
    /\ Fails(cur.host \notin world.up)
    /\ ops' = Logged("connect", EMPTY, EMPTY, FALSE)
    /\ Raise(EMPTY)
    /\ UNCHANGED <<input, world, it, cur, sessions, shares, si, dirs, files,
                   attempts, mapped, reported>>

\* line 55: the server accepts the credential
LoginOk ==
    /\ pc = "login"
    /\ <<cur.username, cur.password>> \in world.valid
    /\ sessions' = [sessions EXCEPT ![Len(sessions)].logged_in = TRUE]
    /\ ops' = Logged("login", EMPTY, EMPTY, TRUE)
    /\ pc' = "list_shares"
    /\ Unfaulted
    /\ UNCHANGED <<input, world, it, cur, shares, si, stack, dirs, files, out,
                   attempts, mapped, failures, replay, reported>>

\* line 55 raises
LoginFail ==
    /\ pc = "login"
    /\ Fails(<<cur.username, cur.password>> \notin world.valid)
    /\ ops' = Logged("login", EMPTY, EMPTY, FALSE)
    /\ Raise(EMPTY)
    /\ UNCHANGED <<input, world, it, cur, sessions, shares, si, dirs, files,
                   attempts, mapped, reported>>

\* line 58: list_shares with the server's answer
ListSharesOk ==
    /\ pc = "list_shares"
    /\ LET r == list_shares([ok |-> TRUE, shares |-> ListShares(world)])
       IN  /\ shares' = r.share_names
           /\ out' = out \o r.out
    /\ ops' = Logged("listShares", EMPTY, EMPTY, TRUE)
    /\ pc' = "check_shares"
    /\ Unfaulted
    /\ UNCHANGED <<input, world, it, cur, sessions, si, stack, dirs, files,
                   attempts, mapped, failures, replay, reported>>

\* line 58: list_shares when listShares raises
ListSharesFail ==
    /\ pc = "list_shares"
    /\ Fails(FALSE)
    /\ LET r == list_shares([ok |-> FALSE, shares |-> EMPTY])
       IN  /\ shares' = r.share_names
           /\ out' = out \o r.out
    /\ ops' = Logged("listShares", EMPTY, EMPTY, FALSE)
    /\ pc' = "check_shares"
    /\ UNCHANGED <<input, world, it, cur, sessions, si, stack, dirs, files,
                   attempts, mapped, reported>>

\* lines 60-62: no share, the function returns
NoShares ==
    /\ pc = "check_shares"
    /\ shares = EMPTY
    /\ out' = Append(out, Line("NoShares", cur.host, cur.username))
    /\ pc' = "main"
    /\ UNCHANGED <<input, world, it, cur, sessions, shares, si, stack, dirs, files,
                   attempts, ops, mapped, failures, replay, reported>>

\* lines 65-66: the host directory is created
HostDirOk ==
    /\ pc = "check_shares"
    /\ shares # EMPTY
    /\ LET mk == Makedirs(dirs, files, host_directory(cur.host), FALSE)
       IN  /\ mk.ok
           /\ dirs' = mk.dirs
    /\ ops' = Logged("makedirs", EMPTY, host_directory(cur.host), TRUE)
    /\ si' = 1
    /\ pc' = "share"
    /\ Unfaulted
    /\ UNCHANGED <<input, world, it, cur, sessions, shares, stack, files, out,
                   attempts, mapped, failures, replay, reported>>

\* line 66 raises
HostDirFail ==
    /\ pc = "check_shares"
    /\ shares # EMPTY
    /\ LET mk == Makedirs(dirs, files, host_directory(cur.host), FALSE)
       IN  /\ Fails(~mk.ok)
           /\ dirs' = IF mk.ok THEN dirs ELSE mk.dirs
    /\ ops' = Logged("makedirs", EMPTY, host_directory(cur.host), FALSE)
    /\ Raise(EMPTY)
    /\ UNCHANGED <<input, world, it, cur, sessions, shares, si, files, attempts, mapped,
                   reported>>

\* lines 69-75: the share directory is created and spider_files is called
ShareDirOk ==
    /\ pc = "share"
    /\ si <= Len(shares)
    /\ LET mk == Makedirs(dirs, files, LocalBase, FALSE)
       IN  /\ mk.ok
           /\ dirs' = mk.dirs
    /\ ops' = Logged("makedirs", Share, LocalBase, TRUE)
    /\ out' = Append(out, Line("Listing", Share, cur.host))
    /\ stack' = <<Frame(EMPTY)>>
    /\ pc' = "spider"
    /\ Unfaulted
    /\ UNCHANGED <<input, world, it, cur, sessions, shares, si, files, attempts,
                   mapped, failures, replay, reported>>

\* line 72 raises
ShareDirFail ==
    /\ pc = "share"
    /\ si <= Len(shares)
    /\ LET mk == Makedirs(dirs, files, LocalBase, FALSE)
       IN  /\ Fails(~mk.ok)
           /\ dirs' = IF mk.ok THEN dirs ELSE mk.dirs
    /\ ops' = Logged("makedirs", Share, LocalBase, FALSE)
    /\ Raise(<<Line("Listing", Share, cur.host)>>)
    /\ UNCHANGED <<input, world, it, cur, sessions, shares, si, files, attempts, mapped,
                   reported>>

\* line 77: after the last share the session is logged off
LogoffOk ==
    /\ pc = "share"
    /\ si > Len(shares)
    /\ sessions' = [sessions EXCEPT ![Len(sessions)].logoffs = @ + 1]
    /\ ops' = Logged("logoff", EMPTY, EMPTY, TRUE)
    /\ pc' = "main"
    /\ Unfaulted
    /\ UNCHANGED <<input, world, it, cur, shares, si, stack, dirs, files, out,
                   attempts, mapped, failures, replay, reported>>

\* line 77 raises
LogoffFail ==
    /\ pc = "share"
    /\ si > Len(shares)
    /\ Fails(FALSE)
    /\ sessions' = [sessions EXCEPT ![Len(sessions)].logoffs = @ + 1]
    /\ ops' = Logged("logoff", EMPTY, EMPTY, FALSE)
    /\ Raise(EMPTY)
    /\ UNCHANGED <<input, world, it, cur, shares, si, dirs, files, attempts, mapped,
                   reported>>

\* ------------------------------------------------------ spider_files
Listing == ListPath(world, Share, Top.remote_path \o <<STAR>>)
TooDeep == Len(stack) > RecursionLimit

\* line 85: the listing of the frame's directory
ListFilesOk ==
    /\ pc = "spider"
    /\ ~Top.listed
    /\ ~TooDeep
    /\ Listing.ok
    /\ LET r == list_files(Listing, Share)
       IN  /\ stack' = SetTop([Top EXCEPT !.listed = TRUE, !.files = r.files,
                                          !.node = Listing.node])
           /\ out' = out \o r.out
    /\ ops' = Logged("listPath", Share, Top.remote_path, TRUE)
    /\ Unfaulted
    /\ UNCHANGED <<input, world, pc, it, cur, sessions, shares, si, dirs, files,
                   attempts, mapped, failures, replay, reported>>

\* line 85: listPath raises, by itself, by a fault, or with a RecursionError
\* raised inside the call
ListFilesFail ==
    /\ pc = "spider"
    /\ ~Top.listed
    /\ IF TooDeep THEN Chooses(<<"caught", 0>>) ELSE Fails(~Listing.ok)
    /\ ops' = Logged("listPath", Share, Top.remote_path, FALSE)
    /\ LET r == list_files([ok |-> FALSE, files |-> EMPTY, node |-> 0], Share)
       IN  IF r.raised
           THEN Raise(r.out)
           ELSE /\ stack' = SetTop([Top EXCEPT !.listed = TRUE, !.files = r.files])
                /\ out' = out \o r.out
                /\ pc' = pc
    /\ UNCHANGED <<input, world, it, cur, sessions, shares, si, dirs, files,
                   attempts, mapped, reported>>

\* lines 97/85: the RecursionError is raised outside list_files' try block
RecursionRaise ==
    /\ pc = "spider"
    /\ ~Top.listed
    /\ TooDeep
    /\ Chooses(<<"raised", 0>>)
    /\ ops' = Logged("spider_files", Share, Top.remote_path, FALSE)
    /\ Raise(EMPTY)
    /\ UNCHANGED <<input, world, it, cur, sessions, shares, si, dirs, files,
                   attempts, mapped, reported>>

\* lines 88-89
EntrySkip ==
    /\ pc = "spider"
    /\ Top.listed
    /\ Top.i <= Len(Top.files)
    /\ is_skipped(TopEntry.name)
    /\ stack' = SetTop([Top EXCEPT !.i = @ + 1])
    /\ UNCHANGED <<input, world, pc, it, cur, sessions, shares, si, dirs, files,
                   out, attempts, ops, mapped, failures, replay, reported>>

\* a walk that creates the local directory and puts the directory off until
\* the listing it was found in is exhausted
EntryDirOk_Deferred ==
    /\ pc = "spider"
    /\ Top.listed
    /\ Top.i <= Len(Top.files)
    /\ ~is_skipped(TopEntry.name)
    /\ TopEntry.is_directory
    /\ LET mk == Makedirs(dirs, files, TopLocal, FALSE)
       IN  /\ mk.ok
           /\ dirs' = mk.dirs
    /\ ops' = Logged("makedirs", Share, TopLocal, TRUE)
    /\ mapped' = mapped \cup {Mapping}
    /\ stack' = <<Frame(Append(TopRemote, BSL))>> \o SetTop([Top EXCEPT !.i = @ + 1])
    /\ Unfaulted
    /\ UNCHANGED <<input, world, pc, it, cur, sessions, shares, si, files, out,
                   attempts, failures, replay, reported>>

\* lines 94-97: the local directory is created and the walk descends
EntryDirOk ==
    /\ pc = "spider"
    /\ Top.listed
    /\ Top.i <= Len(Top.files)
    /\ ~is_skipped(TopEntry.name)
    /\ TopEntry.is_directory
    /\ LET mk == Makedirs(dirs, files, TopLocal, FALSE)
       IN  /\ mk.ok
           /\ dirs' = mk.dirs
    /\ ops' = Logged("makedirs", Share, TopLocal, TRUE)
    /\ mapped' = mapped \cup {Mapping}
    /\ stack' = Append(SetTop([Top EXCEPT !.i = @ + 1]), Frame(Append(TopRemote, BSL)))
    /\ Unfaulted
    /\ UNCHANGED <<input, world, pc, it, cur, sessions, shares, si, files, out,
                   attempts, failures, replay, reported>>

\* line 96 raises
EntryDirFail ==
    /\ pc = "spider"
    /\ Top.listed
    /\ Top.i <= Len(Top.files)
    /\ ~is_skipped(TopEntry.name)
    /\ TopEntry.is_directory
    /\ LET mk == Makedirs(dirs, files, TopLocal, FALSE)
       IN  /\ Fails(~mk.ok)
           /\ dirs' = IF mk.ok THEN dirs ELSE mk.dirs
    /\ ops' = Logged("makedirs", Share, TopLocal, FALSE)
    /\ mapped' = mapped \cup {Mapping}
    /\ Raise(EMPTY)
    /\ UNCHANGED <<input, world, it, cur, sessions, shares, si, files, attempts,
                   reported>>

\* the record of the reports: a download that opens a local file ends the
\* reports of other remote entries for that file and marks those of its own
\* entry as reopened; a "Downloaded" line is a new report
Reports(r) ==
    LET loc == Resolve(TopLocal)
        mine(x) == x.host = cur.host /\ x.share = Share /\ x.remote = TopRemote
        touched(x) == r.opened /\ x.loc = loc
        kept == {x \in reported : ~touched(x)}
                \cup {[x EXCEPT !.reopened = TRUE] :
                          x \in {y \in reported : touched(y) /\ mine(y)}}
    IN  IF r.out[1].kind = "Downloaded"
        THEN {x \in kept : ~(mine(x) /\ x.loc = loc)}
             \cup {[host |-> cur.host, share |-> Share, remote |-> TopRemote,
                     loc |-> loc, reopened |-> FALSE]}
        ELSE kept

\* the effect of download_file's result r on the state
Downloaded(r) ==
    /\ dirs' = r.dirs
    /\ reported' = Reports(r)
    /\ files' = r.files
    /\ mapped' = mapped \cup {Mapping}
    /\ ops' = ops \o (IF r.opened THEN <<Call("getFile", Share, TopRemote, r.complete)>>
                      ELSE EMPTY)
                  \o <<Call("download_file", Share, TopRemote, r.complete)>>
    /\ IF r.raised
       THEN Raise(r.out)
       ELSE /\ stack' = SetTop([Top EXCEPT !.i = @ + 1])
            /\ out' = out \o r.out
            /\ pc' = pc

\* line 100: download_file with no outside failure
EntryFile ==
    /\ pc = "spider"
    /\ Top.listed
    /\ Top.i <= Len(Top.files)
    /\ ~is_skipped(TopEntry.name)
    /\ ~TopEntry.is_directory
    /\ Downloaded(download_file(dirs, files, GetFile(world, Share, TopRemote),
                                "none", 0, TopRemote, TopLocal))
    /\ Unfaulted
    /\ UNCHANGED <<input, world, it, cur, sessions, shares, si, attempts, failures,
                   replay>>

\* line 100: download_file when makedirs, open or the read fails
EntryFileFault ==
    /\ pc = "spider"
    /\ Top.listed
    /\ Top.i <= Len(Top.files)
    /\ ~is_skipped(TopEntry.name)
    /\ ~TopEntry.is_directory
    /\ LET get == GetFile(world, Share, TopRemote)
       IN  \E fault \in {"makedirs", "open", "read"} :
           \E k \in 0..(IF fault = "read" THEN Len(get.data) ELSE 0) :
               /\ Injects(FALSE, <<fault, k>>)
               /\ Downloaded(download_file(dirs, files, get, fault, k, TopRemote, TopLocal))
    /\ UNCHANGED <<input, world, it, cur, sessions, shares, si, attempts>>

\* line 86: the listing is exhausted, spider_files returns
Return ==
    /\ pc = "spider"
    /\ Top.listed
    /\ Top.i > Len(Top.files)
    /\ stack' = Front(stack)
    /\ IF Len(stack) = 1
       THEN si' = si + 1 /\ pc' = "share"
       ELSE UNCHANGED <<si, pc>>
    /\ UNCHANGED <<input, world, it, cur, sessions, shares, dirs, files, out,
                   attempts, ops, mapped, failures, replay, reported>>

Next ==
    \/ MainNext \/ MainDone
    \/ ConnectOk \/ ConnectFail \/ LoginOk \/ LoginFail
    \/ ListSharesOk \/ ListSharesFail \/ NoShares
    \/ HostDirOk \/ HostDirFail \/ ShareDirOk \/ ShareDirFail
    \/ LogoffOk \/ LogoffFail
    \/ ListFilesOk \/ ListFilesFail \/ RecursionRaise
    \/ EntrySkip \/ EntryDirOk \/ EntryDirFail \/ EntryFile \/ EntryFileFault
    \/ Return

Spec == Init /\ [][Next]_vars

\* the most faults of a first run that is followed by a second run
MaxReplayed == 1

\* lines 127-128, a second time: the program is started again with the same
\* lists, on the local tree the first run left, against the same server and
\* with the faults of the first run
Rerun ==
    /\ pc = "done"
    /\ replay.run = 1
    /\ failures <= MaxReplayed
    /\ replay' = [run |-> 2, sched |-> replay.sched, dirs |-> dirs, files |-> files]
    /\ pc' = "main"
    /\ it' = 1
    /\ cur' = NoTriple
    /\ sessions' = EMPTY
    /\ shares' = EMPTY
    /\ si' = 1
    /\ stack' = EMPTY
    /\ out' = EMPTY
    /\ attempts' = EMPTY
    /\ ops' = EMPTY
    /\ mapped' = {}
    /\ failures' = 0
    /\ reported' = {}
    /\ UNCHANGED <<input, world, dirs, files>>

NextTwice == Next \/ Rerun

SpecTwice == Init /\ [][NextTwice]_vars

\* KeyboardInterrupt, at any point of main's loop or of spider_smb_shares: it
\* is no Exception, so the except of line 78 lets it pass, main has no
\* handler, and the interpreter exits
Interrupt ==
    /\ pc \in {"main", "connect", "login", "list_shares", "check_shares", "share",
               "spider"}
    /\ pc' = "interrupted"
    /\ UNCHANGED <<input, world, it, cur, sessions, shares, si, stack, dirs, files,
                   out, attempts, ops, mapped, failures, replay, reported>>

NextInterrupt == Next \/ Interrupt

SpecInterrupt == Init /\ [][NextInterrupt]_vars

\* ------------------------------------------------------------- claims
\* the control points of the running program; any other pc is a stopped one
Running == {"main", "connect", "login", "list_shares", "check_shares", "share", "spider"}

\* the lines printed since the running triple was announced
CurOut ==
    LET starts == {i \in 1..Len(out) : out[i].kind = "Trying"}
    IN  IF starts = {} THEN out
        ELSE SubSeq(out, (CHOOSE i \in starts : \A j \in starts : j <= i) + 1, Len(out))

Printed(lines, kind) == \E i \in 1..Len(lines) : lines[i].kind = kind
Did(op, share, path) ==
    \E i \in 1..Len(ops) : ops[i].op = op /\ ops[i].share = share /\ ops[i].path = path
Failed(kinds) == \E i \in 1..Len(ops) : ops[i].op \in kinds /\ ~ops[i].ok

\* C1: whenever spider_smb_shares has returned to main's loop, every session
\* whose connection was established has been logged off exactly once.
C1_LogoffOnEveryExit ==
    pc = "main" => \A i \in 1..Len(sessions) : sessions[i].logoffs = 1

\* C2: the triples handed to spider_smb_shares are, in order, those of the
\* Cartesian product with the host outermost and the password innermost,
\* each index triple at exactly one position; the program stops only after
\* the last one, whatever failed on the way.
C2_SweepIsTheOrderedProduct ==
    LET hs == input.hosts
        us == input.usernames
        ps == input.passwords
    IN  /\ Len(attempts) <= Len(hs) * Len(us) * Len(ps)
        /\ \A a \in 1..Len(hs) : \A b \in 1..Len(us) : \A c \in 1..Len(ps) :
             LET pos == (a - 1) * Len(us) * Len(ps) + (b - 1) * Len(ps) + c
             IN  pos <= Len(attempts) =>
                    attempts[pos] = [host |-> hs[a], username |-> us[b], password |-> ps[c]]
        /\ pc \notin Running => Len(attempts) = Len(hs) * Len(us) * Len(ps)

\* C2's case: a sweep over two hosts and two passwords that ran to its end
\* past refused logins and a fault of the environment, and downloaded after
\* a triple had failed
C2_Witness ==
    /\ pc = "done"
    /\ Len(attempts) = 4
    /\ attempts[1].host # attempts[4].host
    /\ attempts[1].password # attempts[2].password
    /\ failures > 0
    /\ \E i \in 1..Len(out) : \E j \in 1..Len(out) :
          i < j /\ out[i].kind = "ErrorConnecting" /\ out[j].kind = "Downloaded"

\* C3: the walk never enters a directory it is already inside of (a cycle
\* guard stops it and a loop is reported).
C3_NoDirectoryReentered ==
    \A i \in 1..Len(stack) : \A j \in 1..Len(stack) :
        (i < j /\ stack[i].node # 0) => stack[i].node # stack[j].node

\* the location of output/ and of the directory of a share; the share name
\* is one path component
OutputDir == Append(Cwd, <<"output">>)
ShareLoc(host, share) == OutputDir \o <<host, share>>
HostsOf(l) == {l.hosts[i] : i \in 1..Len(l.hosts)}
ShareNamesOf(w) == {w.shares[i].name : i \in 1..Len(w.shares)}

\* C4: every local directory created and every local file written is
\* output/, output/<host>/ or lies in output/<host>/<share>/ for a host of
\* the input and a share of the server.
C4_LocalPathsStayInShareDirectory ==
    \A loc \in (dirs \ BaseDirs) \cup DOMAIN files :
        \/ loc = OutputDir
        \/ \E h \in HostsOf(input) : loc = Append(OutputDir, h)
        \/ \E h \in HostsOf(input) : \E sh \in ShareNamesOf(world) :
              IsPrefix(ShareLoc(h, sh), loc)

\* C5: within one host, two remote entries that differ in share or in remote
\* path (as the server reads it) never get the same local location.
C5_LocalPathInjective ==
    \A m \in mapped : \A n \in mapped :
        (m.host = n.host /\ Resolve(m.lpath) = Resolve(n.lpath)) =>
            /\ m.share = n.share
            /\ Components(m.remote, {SEP, BSL}) = Components(n.remote, {SEP, BSL})

\* C6: when spider_smb_shares returns after it began to spider its shares,
\* every share of the listing has had its root listed.
C6_EveryShareSpidered ==
    (pc = "main" /\ Printed(CurOut, "Listing")) =>
        \A k \in 1..Len(shares) : Did("listPath", shares[k], EMPTY)

\* C10: "no shares found" is printed for a triple only if its share listing
\* succeeded (and, by line 60, was empty).
C10_NoSharesOnlyAfterListing ==
    Printed(CurOut, "NoShares") =>
        \E i \in 1..Len(ops) : ops[i].op = "listShares" /\ ops[i].ok

\* every share of the listing had its root listed
SharesHandled == \A k \in 1..Len(shares) : Did("listPath", shares[k], EMPTY)

\* every entry of every listing the triple obtained was handled: a directory
\* was listed in its turn, a download was attempted for a file
EntriesHandled ==
    \A i \in 1..Len(ops) :
        (ops[i].op = "listPath" /\ ops[i].ok) =>
            LET es == ListPath(world, ops[i].share, ops[i].path \o <<STAR>>).files
            IN  \A k \in 1..Len(es) :
                    ~is_skipped(es[k].name) =>
                        LET frp == full_remote_path(ops[i].path, es[k].name)
                        IN  IF es[k].is_directory
                            THEN Did("listPath", ops[i].share, Append(frp, BSL))
                            ELSE Did("download_file", ops[i].share, frp)

\* the operations that failed in the running triple are all of these kinds
OnlyFailed(kinds) == \A i \in 1..Len(ops) : ~ops[i].ok => ops[i].op \in kinds

\* C7: when spider_smb_shares returns from a triple in which a directory
\* listing failed and nothing but listings and downloads failed, the failure
\* was reported, no exception left the walk, and every share and every entry
\* of every listing obtained was handled (listed, or a download attempted).
C7_ListingFailureSkipsOnlyThatDirectory ==
    (pc = "main" /\ Failed({"listPath"})
                 /\ OnlyFailed({"listPath", "getFile", "download_file"})) =>
        /\ Printed(CurOut, "ErrorListingFiles")
        /\ ~Printed(CurOut, "ErrorConnecting")
        /\ SharesHandled
        /\ EntriesHandled

\* C7's case: the listing of d fails; its later sibling b and the file of the
\* later share t are downloaded
C7_Witness ==
    /\ pc = "main"
    /\ OnlyFailed({"listPath"})
    /\ \E i \in 1..Len(ops) : \E j \in 1..Len(ops) : \E k \in 1..Len(ops) :
          /\ i < j /\ j < k
          /\ ops[i] = Call("listPath", <<"s">>, <<"d", BSL>>, FALSE)
          /\ ops[j] = Call("download_file", <<"s">>, <<"b">>, TRUE)
          /\ ops[k] = Call("download_file", <<"t">>, <<"a">>, TRUE)

\* C8: when spider_smb_shares returns from a triple in which a download
\* failed and nothing but listings and downloads failed, the failure was
\* reported, no exception left the walk, and a download was attempted for
\* every file of every listing obtained, in every share.
C8_DownloadFailureSkipsOnlyThatFile ==
    (pc = "main" /\ Failed({"download_file"})
                 /\ OnlyFailed({"listPath", "getFile", "download_file"})) =>
        /\ Printed(CurOut, "ErrorDownloading")
        /\ ~Printed(CurOut, "ErrorConnecting")
        /\ SharesHandled
        /\ EntriesHandled

\* C8's case: the read of d's file a fails; b, which follows d, and the file
\* of the later share t are downloaded
C8_Witness ==
    /\ pc = "main"
    /\ \E i \in 1..Len(ops) : \E j \in 1..Len(ops) : \E k \in 1..Len(ops) :
          /\ i < j /\ j < k
          /\ ops[i] = Call("getFile", <<"s">>, <<"d", SEP, SEP, "a">>, FALSE)
          /\ ops[j] = Call("download_file", <<"s">>, <<"b">>, TRUE)
          /\ ops[k] = Call("download_file", <<"t">>, <<"a">>, TRUE)

\* C9: once login has failed for a triple, the triple has done nothing but
\* connect and log in (no listing, no read, no local directory), the failure
\* is reported and control is back in main's loop.
C9_LoginFailureEndsTheTriple ==
    Failed({"login"}) =>
        /\ ops = <<Call("connect", EMPTY, EMPTY, TRUE), Call("login", EMPTY, EMPTY, FALSE)>>
        /\ pc \in {"main", "done"}
        /\ Printed(CurOut, "ErrorConnecting")
        /\ stack = EMPTY

\* C9's case: the first password is refused, nothing was created, and the
\* sweep has a next triple to go on with
C9_Witness ==
    /\ Failed({"login"})
    /\ pc = "main"
    /\ it <= Len(Triples)
    /\ dirs = BaseDirs
    /\ files = NoFiles

\* a name that is one path component: no separator, no NUL, no wildcard, and
\* neither "." nor ".."
PlainName(n) ==
    /\ n # EMPTY
    /\ n \notin {CURDIR, PARDIR}
    /\ \A i \in 1..Len(n) : n[i] \notin {SEP, BSL, NUL, STAR}

\* the entries of directory node n that are not "." or ".."
Children(w, n) ==
    LET es == w.nodes[n].files
    IN  {es[i] : i \in {j \in 1..Len(es) : es[j].name \notin {CURDIR, PARDIR}}}

\* a chain of more than fuel directories starts at node n
RECURSIVE Deeper(_, _, _)
Deeper(w, n, fuel) ==
    IF fuel = 0 THEN TRUE
    ELSE \E e \in Children(w, n) : e.is_directory /\ Deeper(w, e.node, fuel - 1)

\* the directories below node n (n itself included), each as the chain of
\* names that leads to it from the share root
RECURSIVE DirsBelow(_, _, _)
DirsBelow(w, n, chain) ==
    {chain} \cup UNION {DirsBelow(w, e.node, Append(chain, e.name)) :
                            e \in {c \in Children(w, n) : c.is_directory}}

\* the files below node n, each with the chain of names that leads to it
RECURSIVE FilesBelow(_, _, _)
FilesBelow(w, n, chain) ==
    {[chain |-> Append(chain, e.name), data |-> w.nodes[e.node].data] :
        e \in {c \in Children(w, n) : ~c.is_directory}}
    \cup UNION {FilesBelow(w, e.node, Append(chain, e.name)) :
                    e \in {c \in Children(w, n) : c.is_directory}}

\* the server exports finite trees of plainly named entries: share names and
\* entry names are single components, the names of a listing are distinct,
\* and no directory is below itself
TreeWorld(w) ==
    /\ \A k \in 1..Len(w.shares) :
          /\ PlainName(w.shares[k].name)
          /\ \A j \in 1..Len(w.shares) : w.shares[j].name = w.shares[k].name => j = k
          /\ ~Deeper(w, w.shares[k].root, Len(w.nodes))
    /\ \A n \in 1..Len(w.nodes) :
          /\ \A e \in Children(w, n) : PlainName(e.name)
          /\ \A e \in Children(w, n) : \A f \in Children(w, n) : e.name = f.name => e = f

\* the operations of the running triple that are op on the entry of share
\* that the chain of names leads to
OpsOn(op, share, chain) ==
    {i \in 1..Len(ops) : /\ ops[i].op = op
                         /\ ops[i].share = share
                         /\ Components(ops[i].path, {SEP, BSL}) = chain}

\* spider_smb_shares has returned by its last line and no operation of the
\* triple failed
CleanReturn ==
    /\ pc = "main"
    /\ ops # EMPTY
    /\ Last(ops) = Call("logoff", EMPTY, EMPTY, TRUE)
    /\ \A i \in 1..Len(ops) : ops[i].ok

\* C11: when spider_smb_shares returns from a triple whose login succeeded
\* and in which no operation failed, against a server that exports finite
\* trees of plainly named entries: for every share, the local files below
\* output/<host>/<share>/ are exactly the remote files of the share, each at
\* its relative remote path and with the remote content; every remote
\* directory was listed exactly once and every remote file read exactly once.
C11_MirrorOfTheShare ==
    (CleanReturn /\ TreeWorld(world)) =>
        \A k \in 1..Len(world.shares) :
            LET sh == world.shares[k].name
                base == ShareLoc(cur.host, sh)
                remote == FilesBelow(world, world.shares[k].root, EMPTY)
                folders == DirsBelow(world, world.shares[k].root, EMPTY)
            IN  /\ \A f \in remote :
                      /\ (base \o f.chain) \in DOMAIN files
                      /\ files[base \o f.chain] = f.data
                      /\ Cardinality(OpsOn("getFile", sh, f.chain)) = 1
                /\ \A loc \in DOMAIN files :
                      IsPrefix(base, loc) => \E f \in remote : loc = base \o f.chain
                /\ \A d \in folders : Cardinality(OpsOn("listPath", sh, d)) = 1
                /\ \A d \in folders : (base \o d) \in dirs

\* C11's case: the triple mirrored both shares of the tree: the file a of
\* directory d, the file b beside d, and the file a of the second share
C11_Witness ==
    /\ CleanReturn
    /\ TreeWorld(world)
    /\ Len(world.shares) = 2
    /\ DOMAIN files = {ShareLoc(cur.host, <<"s">>) \o <<<<"d">>, <<"a">>>>,
                       ShareLoc(cur.host, <<"s">>) \o <<<<"b">>>>,
                       ShareLoc(cur.host, <<"t">>) \o <<<<"a">>>>}
    /\ files[ShareLoc(cur.host, <<"s">>) \o <<<<"d">>, <<"a">>>>] = <<3>>
    /\ files[ShareLoc(cur.host, <<"s">>) \o <<<<"b">>>>] = <<1, 2>>
    /\ files[ShareLoc(cur.host, <<"t">>) \o <<<<"a">>>>] = <<1, 2>>

\* C12: when the program, started a second time with the same lists, on the
\* local tree of the first run, against the same server and with the same
\* outcome of every operation, has ended, the local files and their contents
\* are those the first run left.
C12_SecondRunChangesNothing ==
    (pc = "done" /\ replay.run = 2) => files = replay.files

\* C12's case: both runs ended; in each the read of one file broke off after
\* its first byte and another file was downloaded in full
C12_Witness ==
    /\ pc = "done"
    /\ replay.run = 2
    /\ failures = MaxReplayed
    /\ \E f \in replay.sched : f.what = <<"read", 1>>
    /\ \E a \in DOMAIN files : \E b \in DOMAIN files : files[a] = <<1>> /\ files[b] = <<3>>

\* C13: when an interrupt has ended the program, every session whose
\* connection was established has been logged off.
C13_InterruptLogsOff ==
    pc = "interrupted" => \A i \in 1..Len(sessions) : sessions[i].logoffs >= 1

\* C14: at most one session is open, a session being open from the
\* connection that established it until its logoff.
C14_AtMostOneSessionOpen ==
    Cardinality({i \in 1..Len(sessions) : sessions[i].logoffs = 0}) <= 1

\* the creation of the local directory of a directory entry failed in the
\* running triple
EntryDirFailed ==
    \E i \in 1..Len(ops) :
        /\ ops[i].op = "makedirs"
        /\ ~ops[i].ok
        /\ ops[i].share # EMPTY
        /\ ops[i].path # share_directory(cur.host, ops[i].share)

\* a download was attempted for every file entry of every listing obtained
FilesHandled ==
    \A i \in 1..Len(ops) :
        (ops[i].op = "listPath" /\ ops[i].ok) =>
            LET es == ListPath(world, ops[i].share, ops[i].path \o <<STAR>>).files
            IN  \A k \in 1..Len(es) :
                    (~is_skipped(es[k].name) /\ ~es[k].is_directory) =>
                        Did("download_file", ops[i].share,
                            full_remote_path(ops[i].path, es[k].name))

\* C15: when spider_smb_shares returns from a triple in which the local
\* directory of a directory entry could not be created, no exception has left
\* the walk of the share, and the later entries of the listing and the later
\* shares were processed.
C15_EntryDirFailureSkipsOnlyThatEntry ==
    (pc = "main" /\ EntryDirFailed) =>
        /\ ~Printed(CurOut, "ErrorConnecting")
        /\ SharesHandled
        /\ FilesHandled

\* the calls of download_file in the running triple, and the lines they
\* printed
Downloads == SelectSeq(ops, LAMBDA c : c.op = "download_file")
DownloadLines ==
    SelectSeq(CurOut, LAMBDA l : l.kind \in {"Downloaded", "ErrorDownloading"})

\* the local location download_file writes for the entry of operation c
WrittenLoc(c) == Resolve(local_path(share_directory(cur.host, c.share), c.path))

\* C16: every call of download_file printed exactly one line, for its file:
\* "Downloaded" if and only if the remote read ran to completion, a failure
\* otherwise; and right after a read that failed part-way the local file
\* exists and holds the bytes delivered before the failure.
C16_ReportedIffReadCompleted ==
    /\ Len(DownloadLines) = Len(Downloads)
    /\ \A i \in 1..Len(Downloads) :
          /\ DownloadLines[i].a = Downloads[i].path
          /\ DownloadLines[i].kind = "Downloaded" <=> Downloads[i].ok
    /\ \A j \in 1..Len(ops) :
          (ops[j].op = "download_file" /\ ops[j].ok) =>
              j > 1 /\ ops[j - 1] = Call("getFile", ops[j].share, ops[j].path, TRUE)
    /\ \A j \in 1..Len(ops) :
          (ops[j].op = "getFile" /\ ops[j].ok) =>
              j < Len(ops) /\ ops[j + 1] = Call("download_file", ops[j].share, ops[j].path, TRUE)
    /\ LET n == Len(ops)
       IN  (n > 1 /\ ops[n].op = "download_file" /\ ops[n - 1].op = "getFile"
                  /\ ~ops[n - 1].ok) =>
              /\ WrittenLoc(ops[n]) \in DOMAIN files
              /\ IsPrefix(files[WrittenLoc(ops[n])],
                          GetFile(world, ops[n].share, ops[n].path).data)

\* C16's case: the read of b broke off after the first of its two bytes:
\* the failure is the last line printed, no success was printed for b, the
\* local file holds that byte; the file of d before it was reported
C16_Witness ==
    LET n == Len(ops)
    IN  /\ n > 1
        /\ ops[n] = Call("download_file", <<"s">>, <<"b">>, FALSE)
        /\ ops[n - 1] = Call("getFile", <<"s">>, <<"b">>, FALSE)
        /\ GetFile(world, <<"s">>, <<"b">>).data = <<1, 2>>
        /\ WrittenLoc(ops[n]) \in DOMAIN files
        /\ files[WrittenLoc(ops[n])] = <<1>>
        /\ Last(out) = Line("ErrorDownloading", <<"b">>, EMPTY)
        /\ \A i \in 1..Len(CurOut) : CurOut[i].kind = "Downloaded" => CurOut[i].a # <<"b">>
        /\ Printed(CurOut, "Downloaded")

\* operation c of the running triple belongs to the subtree of the directory
\* that chain leads to in share: a listing or a read of a remote path below
\* it, or the creation of a local directory below its local directory
InSubtree(c, share, chain) ==
    /\ c.share = share
    /\ IF c.op = "makedirs"
       THEN IsPrefix(ShareLoc(cur.host, share) \o chain, Resolve(c.path))
       ELSE IsPrefix(chain, Components(c.path, {SEP, BSL}))

\* every frame below the innermost one has stopped right after the directory
\* entry that the frame above it walks, and the outermost frame walks the
\* share root: the entries after that directory wait until its walk is over
FramesNested ==
    /\ stack # EMPTY => stack[1].remote_path = EMPTY
    /\ \A n \in 1..(Len(stack) - 1) :
          /\ stack[n].listed
          /\ stack[n].i > 1
          /\ stack[n].i - 1 <= Len(stack[n].files)
          /\ LET e == stack[n].files[stack[n].i - 1]
             IN  /\ e.is_directory
                 /\ stack[n + 1].remote_path
                        = Append(full_remote_path(stack[n].remote_path, e.name), BSL)

\* the listing of a directory comes right after the creation of its local
\* directory: of the share directory for the root, of the directory of the
\* entry for any other
ListedWhenCreated ==
    \A i \in 1..Len(ops) :
        ops[i].op = "listPath" =>
            /\ i > 1
            /\ ops[i - 1] =
                 Call("makedirs", ops[i].share,
                      IF ops[i].path = EMPTY
                      THEN share_directory(cur.host, ops[i].share)
                      ELSE local_path(share_directory(cur.host, ops[i].share),
                                      Front(ops[i].path)),
                      TRUE)

\* on a server of plain trees: once the triple is over, the operations in
\* the subtree of a directory are consecutive from its listing on, so none
\* of them comes after an operation on a later entry
SubtreesConsecutive ==
    (pc = "main" /\ TreeWorld(world)) =>
        \A i \in 1..Len(ops) :
            ops[i].op = "listPath" =>
                LET d == Components(ops[i].path, {SEP, BSL})
                IN  \A j \in i..Len(ops) :
                        InSubtree(ops[j], ops[i].share, d) =>
                            \A m \in i..j : InSubtree(ops[m], ops[i].share, d)

\* C17: the walk of a share is depth first and pre-order from the share
\* root: the local directory of a directory entry is created and the
\* directory is listed at once, every operation in its subtree comes before
\* any later entry of the listing it was found in, and every local file has
\* all the directories above it.
C17_DepthFirstPreOrder ==
    /\ FramesNested
    /\ ListedWhenCreated
    /\ SubtreesConsecutive
    /\ \A loc \in DOMAIN files : \A k \in 0..(Len(loc) - 1) : SubSeq(loc, 1, k) \in dirs

\* C17's case: d is created, listed and its file read before b, the entry
\* after d, is read; b's read happens with d's frame gone
C17_Witness ==
    /\ pc = "spider"
    /\ Len(stack) = 1
    /\ \E i \in 1..Len(ops) :
          /\ i + 5 = Len(ops)
          /\ ops[i].op = "makedirs" /\ ops[i].path = <<"output", SEP, "h", SEP, "s", SEP, "d">>
          /\ ops[i + 1] = Call("listPath", <<"s">>, <<"d", BSL>>, TRUE)
          /\ ops[i + 2] = Call("getFile", <<"s">>, <<"d", SEP, SEP, "a">>, TRUE)
          /\ ops[i + 3] = Call("download_file", <<"s">>, <<"d", SEP, SEP, "a">>, TRUE)
          /\ ops[i + 4] = Call("getFile", <<"s">>, <<"b">>, TRUE)
          /\ ops[i + 5] = Call("download_file", <<"s">>, <<"b">>, TRUE)
    /\ (ShareLoc(<<"h">>, <<"s">>) \o <<<<"d">>, <<"a">>>>) \in DOMAIN files

\* the local file of report x holds the remote content of its entry
HoldsRemoteContent(x) ==
    /\ x.loc \in DOMAIN files
    /\ files[x.loc] = GetFile(world, x.share, x.remote).data

\* C18 as stated, in the case it names (a later download of the same path):
\* every file reported as downloaded, and not since opened by the download
\* of another remote entry, holds the remote content.
C18_ReportedFileStaysEqual ==
    \A x \in reported : HoldsRemoteContent(x)

\* C18, amended: every file reported as downloaded holds the remote content
\* as long as no later download has opened the same local file for writing
\* (a download that opens it and fails leaves only the bytes it wrote).
C18_ReportedFileStaysEqualUntilReopened ==
    \A x \in reported : ~x.reopened => HoldsRemoteContent(x)

\* C18's case: b was reported by an earlier triple; the running, later
\* triple reported b again, while its read of d's file a broke off, so that
\* a's report of the earlier triple is marked reopened and b's is not
C18_Witness ==
    /\ Len(attempts) = 2
    /\ attempts[1].host = attempts[2].host
    /\ \E x \in reported : \E y \in reported :
          /\ x.remote = <<"b">> /\ ~x.reopened /\ HoldsRemoteContent(x)
          /\ y.remote = <<"d", SEP, SEP, "a">> /\ y.reopened /\ ~HoldsRemoteContent(y)
    /\ Did("download_file", <<"s">>, <<"b">>)
    /\ Cardinality({i \in 1..Len(out) : out[i].kind = "Downloaded" /\ out[i].a = <<"b">>}) = 2

=============================================================================
